---- MODULE Spec2Model ----
(***************************************************************************)
(* Model of cerbero's packaging layer:                                     *)
(*   cerbero/packages/packagesstore.py  (PackagesStore)                    *)
(*   cerbero/packages/wix.py            (WixBase, MergeModule, MSI)        *)
(* Strings are sequences of one-character strings so that the character    *)
(* level transformations of the code (replace, split, join, sorted) are    *)
(* computed and not assumed.                                               *)
(***************************************************************************)
EXTENDS Integers, Sequences, FiniteSets, TLC

(***************************************************************************)
(* Bounds                                                                  *)
(***************************************************************************)
\* total number of dependency mentions in the declared deps lists of a registry
MaxEdges == 2
\* number of (name, required, selected) entries of the MetaPackage
MaxConstituents == 2
\* store calls are disabled once the deps lists have grown by more than this many entries
MaxGrowth == 1
\* depth at which the interpreter gives up a recursion (RuntimeError)
RecursionLimit == 5
\* length of the files_list handed to a MergeModule
MaxFiles == 2
\* number of direct _format_path_id calls on one builder
MaxIdCalls == 3

(***************************************************************************)
(* Characters and strings                                                  *)
(***************************************************************************)
\* ASCII codes of the characters used, for Python's str comparison
Ord == (" " :> 32) @@ ("+" :> 43) @@ ("-" :> 45) @@ ("." :> 46) @@ ("/" :> 47)
       @@ ("0" :> 48) @@ ("1" :> 49) @@ ("2" :> 50) @@ ("3" :> 51) @@ ("4" :> 52)
       @@ ("5" :> 53) @@ ("6" :> 54) @@ ("7" :> 55) @@ ("8" :> 56) @@ ("9" :> 57)
       @@ ("@" :> 64) @@ ("_" :> 95) @@ ("a" :> 97) @@ ("b" :> 98) @@ ("c" :> 99)
       @@ ("d" :> 100) @@ ("e" :> 101) @@ ("k" :> 107) @@ ("o" :> 111)
       @@ ("p" :> 112) @@ ("r" :> 114) @@ ("s" :> 115) @@ ("x" :> 120)
       @@ ("y" :> 121) @@ ("z" :> 122)

Min(a, b) == IF a < b THEN a ELSE b

\* Python: s < t on str
StrLess(s, t) ==
    \E i \in 1..(Min(Len(s), Len(t)) + 1) :
        /\ \A j \in 1..(i - 1) : s[j] = t[j]
        /\ \/ (i > Len(s) /\ i <= Len(t))
           \/ (i <= Len(s) /\ i <= Len(t) /\ Ord[s[i]] < Ord[t[i]])

Ascending(seq) == \A i, j \in DOMAIN seq : i < j => StrLess(seq[i], seq[j])

RECURSIVE Insert(_, _)
Insert(x, seq) ==
    IF seq = <<>> THEN <<x>>
    ELSE IF StrLess(x, Head(seq)) THEN <<x>> \o seq
    ELSE <<Head(seq)>> \o Insert(x, Tail(seq))

\* Python: sorted(list of str)
RECURSIVE sorted(_)
sorted(seq) == IF seq = <<>> THEN <<>> ELSE Insert(Head(seq), sorted(Tail(seq)))

Range(seq) == {seq[i] : i \in DOMAIN seq}

RECURSIVE SetToSeq(_)
SetToSeq(S) == IF S = {} THEN <<>>
               ELSE LET x == CHOOSE y \in S : TRUE IN <<x>> \o SetToSeq(S \ {x})

\* Python: sorted(ret) without the set(): keeps repeated elements
sorted_keep_dups(seq) == sorted(seq)

\* Python: sorted(set(ret))
sorted_set(seq) == sorted(SetToSeq(Range(seq)))

\* the elements of S in the order they have in perm (iteration order of a set)
RECURSIVE InOrder(_, _)
InOrder(S, perm) ==
    IF perm = <<>> THEN <<>>
    ELSE (IF Head(perm) \in S THEN <<Head(perm)>> ELSE <<>>) \o InOrder(S, Tail(perm))

RECURSIVE SeqsUpTo(_, _)
SeqsUpTo(S, n) ==
    IF n = 0 THEN {<<>>}
    ELSE LET shorter == SeqsUpTo(S, n - 1)
         IN shorter \cup {Append(s, x) : s \in {t \in shorter : Len(t) = n - 1}, x \in S}

Perms(S) == {s \in SeqsUpTo(S, Cardinality(S)) : Len(s) = Cardinality(S) /\ Range(s) = S}

(***************************************************************************)
(* Names                                                                   *)
(***************************************************************************)
app == <<"a", "p", "p">>
base == <<"b", "a", "s", "e">>
core == <<"c", "o", "r", "e">>
sdk == <<"s", "d", "k">>
unknown == <<"z">>

PkgNames == {app, base, core}
AllNames == PkgNames \cup {sdk}

VARIABLES
    packages,      \* PackagesStore._packages: name -> package
    packages0,     \* history: the registry as it was loaded
    last,          \* the store call whose result the caller holds: arguments, return value, exception
    kind,          \* class of the builder object: "none", "WixBase", "MergeModule" or "MSI"
    package,       \* WixBase.package (its name)
    filled,        \* WixBase.filled
    ids,           \* WixBase.ids: sanitized token -> last suffix used
    nodes,         \* the etree document: nodes in creation order, parent = index of the parent node
    dirnodes,      \* MergeModule._dirnodes: directory path -> node
    files_list,    \* MergeModule.files_list
    packages_deps, \* MSI.packages_deps
    required_packages, \* history: required_packages of the last _add_merge_modules run
    fillRuns,      \* history: number of times _fill has run
    refilled,      \* history: fill() has been entered on a builder that was filled
    outfile,       \* the document last written by write()
    idlog          \* history: (path, identifier) of the direct _format_path_id calls

storeVars == <<packages, packages0, last>>
wixVars == <<kind, package, filled, ids, nodes, dirnodes, files_list, packages_deps,
             required_packages, fillRuns, refilled, outfile, idlog>>
vars == <<packages, packages0, last, kind, package, filled, ids, nodes, dirnodes,
          files_list, packages_deps, required_packages, fillRuns, refilled, outfile, idlog>>

(***************************************************************************)
(* cerbero.packages.package: Package and MetaPackage objects as the store  *)
(* and the builders use them                                               *)
(***************************************************************************)
Package(deps) == [type |-> "Package", deps |-> deps, packages |-> <<>>]
MetaPackage(pkgs) == [type |-> "MetaPackage", deps |-> <<>>, packages |-> pkgs]

\* MetaPackage.list_packages(): the names of the (name, required, selected) entries
list_packages(m) == [i \in DOMAIN m.packages |-> m.packages[i][1]]

(***************************************************************************)
(* PackagesStore                                                           *)
(***************************************************************************)
\* get_package: the guard of the PackageNotFoundError
is_registered(pk, name) == name \in DOMAIN pk

\* _list_metapackage_deps.get_package_deps: the visited-guarded walk.
\* acc = [visited, depslist]; both are lists of names in the order of the visit
RECURSIVE walk_deps(_, _, _), walk_deps_loop(_, _, _, _)
walk_deps(pk, package_name, acc) ==
    IF package_name \in Range(acc.visited) THEN acc
    ELSE walk_deps_loop(pk, pk[package_name].deps, 1,
                        [visited |-> Append(acc.visited, package_name),
                         depslist |-> Append(acc.depslist, package_name)])
walk_deps_loop(pk, deps, i, acc) ==
    IF i > Len(deps) THEN acc
    ELSE walk_deps_loop(pk, deps, i + 1, walk_deps(pk, deps[i], acc))

\* a walk that forgets the constituent itself (only what it depends on)
constituent_deps_without_self(pk, p) ==
    Tail(walk_deps(pk, p, [visited |-> <<>>, depslist |-> <<>>]).depslist)

\* the walk of one constituent, started with fresh visited and depslist
constituent_deps(pk, p) == walk_deps(pk, p, [visited |-> <<>>, depslist |-> <<>>]).depslist

\* _list_metapackage_deps: set(deps) of the walks of all constituents
list_metapackage_deps(pk, metapackage) ==
    UNION {Range(constituent_deps(pk, list_packages(metapackage)[i])) :
               i \in DOMAIN metapackage.packages}

Ok(pk, ret) == [pk |-> pk, ret |-> ret, err |-> "none"]
Raise(pk, err) == [pk |-> pk, ret |-> <<>>, err |-> err]

\* get_package_deps(pkg, recursive).  pk is the registry (the call extends deps
\* lists in place), depth the number of get_package_deps frames on the stack,
\* order the iteration order of list(set(deps)).  Returns the registry after
\* the call, the names of the returned packages and the exception raised.
RECURSIVE get_package_deps(_, _, _, _, _), expand_own_deps(_, _, _, _, _),
          expand_local(_, _, _, _, _)
get_package_deps(pk, pkg, recursive, depth, order) ==
    IF depth > RecursionLimit THEN Raise(pk, "RuntimeError")
    ELSE IF ~is_registered(pk, pkg) THEN Raise(pk, "PackageNotFoundError")
    ELSE IF pk[pkg].type = "MetaPackage"
    THEN LET ret == InOrder(list_metapackage_deps(pk, pk[pkg]), order)
         IN  IF recursive
             THEN LET r == expand_local(pk, ret, 1, depth, order)
                  IN  IF r.err # "none" THEN r ELSE Ok(r.pk, sorted_set(r.ret))
             ELSE Ok(pk, sorted_set(ret))
    ELSE IF recursive
         THEN LET r == expand_own_deps(pk, pkg, 1, depth, order)
              IN  IF r.err # "none" THEN r ELSE Ok(r.pk, sorted_set(r.pk[pkg].deps))
         ELSE Ok(pk, sorted_set(pk[pkg].deps))

\* "for name in ret: ret += ..." where ret is p.deps itself: the list object of
\* the package grows while it is iterated
expand_own_deps(pk, pkg, i, depth, order) ==
    IF i > Len(pk[pkg].deps) THEN Ok(pk, <<>>)
    ELSE LET r == get_package_deps(pk, pk[pkg].deps[i], TRUE, depth + 1, order)
         IN  IF r.err # "none" THEN r
             ELSE expand_own_deps([r.pk EXCEPT ![pkg].deps = @ \o r.ret],
                                  pkg, i + 1, depth, order)

\* the same loop over the fresh list built for a MetaPackage
expand_local(pk, ret, i, depth, order) ==
    IF i > Len(ret) THEN Ok(pk, ret)
    ELSE LET r == get_package_deps(pk, ret[i], TRUE, depth + 1, order)
         IN  IF r.err # "none" THEN r
             ELSE expand_local(r.pk, ret \o r.ret, i + 1, depth, order)

RECURSIVE Concat(_)
Concat(seqs) == IF seqs = <<>> THEN <<>> ELSE Head(seqs) \o Concat(Tail(seqs))

\* _list_metapackage_files: files[n] is what get_files_list() of package n returns
list_metapackage_files(pk, metapackage, files, order) ==
    LET ps == InOrder(list_metapackage_deps(pk, metapackage), order)
    IN  sorted_set(Concat([i \in DOMAIN ps |-> files[ps[i]]]))

\* get_package_files_list(name)
get_package_files_list(pk, name, files, order) ==
    IF ~is_registered(pk, name) THEN Raise(pk, "PackageNotFoundError")
    ELSE IF pk[name].type = "MetaPackage"
    THEN Ok(pk, sorted(list_metapackage_files(pk, pk[name], files, order)))
    ELSE Ok(pk, sorted(files[name]))

(***************************************************************************)
(* os.path                                                                 *)
(***************************************************************************)
SubSeqFrom(s, i) == SubSeq(s, i, Len(s))

\* str.rfind('/') + 1: position of the last slash, 0 when there is none
LastSlash(p) == IF \E i \in DOMAIN p : p[i] = "/"
                THEN CHOOSE i \in DOMAIN p : p[i] = "/" /\ \A j \in (i + 1)..Len(p) : p[j] # "/"
                ELSE 0

RECURSIVE rstrip_slashes(_)
rstrip_slashes(s) ==
    IF s # <<>> /\ s[Len(s)] = "/" THEN rstrip_slashes(SubSeq(s, 1, Len(s) - 1)) ELSE s

\* "if head and head != sep*len(head): head = head.rstrip(sep)"
trim_head(head, tail) ==
    IF head # <<>> /\ (\E j \in DOMAIN head : head[j] # "/")
    THEN <<rstrip_slashes(head), tail>>
    ELSE <<head, tail>>

split_at(p, i) == trim_head(SubSeq(p, 1, i), SubSeqFrom(p, i + 1))

\* posixpath.split(p) -> (head, tail)
path_split(p) == split_at(p, LastSlash(p))

\* posixpath.join(a, b)
path_join(a, b) ==
    IF b # <<>> /\ b[1] = "/" THEN b
    ELSE IF a = <<>> \/ a[Len(a)] = "/" THEN a \o b
    ELSE a \o <<"/">> \o b

(***************************************************************************)
(* WixBase                                                                 *)
(***************************************************************************)
\* str.replace(old, new) for a one-character old
replace(s, old, new) == Concat([i \in DOMAIN s |-> IF s[i] = old THEN new ELSE <<s[i]>>])

RECURSIVE replace_all(_, _, _)
replace_all(s, olds, new) ==
    IF olds = <<>> THEN s ELSE replace_all(replace(s, Head(olds), new), Tail(olds), new)

\* "if replace_dots: ret = ret.replace('.', '')"
drop_dots(s, replace_dots) == IF replace_dots THEN replace(s, ".", <<>>) ELSE s

\* WixBase._format_id(string, replace_dots)
format_id(string, replace_dots) ==
    <<"_">> \o drop_dots(replace_all(replace(string, "_", <<"_", "_">>),
                                     <<"/", "-", " ", "@", "+">>, <<"_">>),
                         replace_dots)

Digits == <<"0", "1", "2", "3", "4", "5", "6", "7", "8", "9">>

\* '%s' % n for a non-negative int
RECURSIVE int_str(_)
int_str(n) == IF n < 10 THEN <<Digits[n + 1]>>
              ELSE int_str(n \div 10) \o <<Digits[(n % 10) + 1]>>

\* the counter update of _format_path_id: a new token starts at 0, a known one counts up
count_token(m, t) ==
    IF t \in DOMAIN m THEN [m EXCEPT ![t] = @ + 1] ELSE (t :> 0) @@ m

\* "if self.ids[ret] != 0: ret = '%s_%s' % (ret, self.ids[ret])"
suffixed(m1, ret) ==
    [ids |-> m1,
     id |-> IF m1[ret] # 0 THEN ret \o <<"_">> \o int_str(m1[ret]) ELSE ret]

counted_id(m, ret) == suffixed(count_token(m, ret), ret)

\* WixBase._format_path_id(path, replace_dots) -> the updated ids and the identifier
format_path_id(m, path, replace_dots) ==
    counted_id(m, format_id(path_split(path)[2], replace_dots))

\* WixBase._format_level / _format_absent
format_level(selected) == IF selected THEN "1" ELSE "2"
format_absent(required) == IF required THEN "disallow" ELSE "allow"

\* a fill() that never looks at the flag
never_filled(f) == FALSE

\* WixBase.fill: the guard in front of _fill
is_filled(f) == f

\* etree.Element / etree.SubElement with the attributes the builders set
Element(tag, id, name, source, level, absent, parent) ==
    [tag |-> tag, Id |-> id, Name |-> name, Source |-> source,
     Level |-> level, Absent |-> absent, parent |-> parent]

SubElement(ns, parent, tag, id, name) ==
    Append(ns, Element(tag, id, name, <<>>, "", "", parent))

(***************************************************************************)
(* MergeModule.  A builder b is the record [nodes, ids, dirnodes].         *)
(***************************************************************************)
\* config.prefix
prefix == <<"/", "p">>

TARGETDIR == <<"T", "A", "R", "G", "E", "T", "D", "I", "R">>
SourceDir == <<"S", "o", "u", "r", "c", "e", "D", "i", "r">>

\* _add_root, _add_module, _add_package, _add_root_dir
mm_add_root(b) ==
    [b EXCEPT !.nodes = <<Element("Wix", <<>>, <<>>, <<>>, "", "", 0)>>]
mm_add_module(b, pkgname) ==
    [b EXCEPT !.nodes = SubElement(@, 1, "Module", format_id(pkgname, FALSE), <<>>)]
mm_add_package(b) ==
    [b EXCEPT !.nodes = SubElement(@, 2, "Package", <<>>, <<>>)]
mm_add_root_dir(b) ==
    [b EXCEPT !.nodes = SubElement(@, 2, "Directory", TARGETDIR, SourceDir),
              !.dirnodes = (<<>> :> (Len(b.nodes) + 1)) @@ @]

\* an _add_directory that does not remember the directories it has added
no_dirnode(dn, dirpath) == FALSE

\* _add_directory: "if dirpath in self._dirnodes: return"
has_dirnode(dn, dirpath) == dirpath \in DOMAIN dn

\* the SubElement call of _add_directory, with its Id already formatted (r)
put_directory(b1, dirpath, parentpath, r) ==
    [nodes |-> SubElement(b1.nodes, b1.dirnodes[parentpath], "Directory", r.id,
                          path_split(dirpath)[2]),
     ids |-> r.ids,
     dirnodes |-> (dirpath :> (Len(b1.nodes) + 1)) @@ b1.dirnodes]

new_directory(b1, dirpath, parentpath) ==
    put_directory(b1, dirpath, parentpath, format_path_id(b1.ids, dirpath, FALSE))

\* _add_directory(dirpath)
RECURSIVE add_directory(_, _), under_parent(_, _, _)
add_directory(b, dirpath) ==
    IF has_dirnode(b.dirnodes, dirpath) THEN b
    ELSE under_parent(b, dirpath, path_split(dirpath)[1])

\* "if parentpath not in self._dirnodes: self._add_directory(parentpath)"
under_parent(b, dirpath, parentpath) ==
    new_directory(IF parentpath \notin DOMAIN b.dirnodes
                  THEN add_directory(b, parentpath) ELSE b,
                  dirpath, parentpath)

\* the File element of _add_file, with its Id already formatted (r2); the
\* Component is the node added last
put_file(b2, filename, source, r2) ==
    [b2 EXCEPT !.nodes = Append(@, Element("File", r2.id, filename, source, "", "",
                                          Len(b2.nodes))),
               !.ids = r2.ids]

add_file_node(b2, filename, source) ==
    put_file(b2, filename, source, format_path_id(b2.ids, source, TRUE))

\* the Component element of _add_file, with its Id already formatted (r1)
put_component(b1, filepath, r1) ==
    add_file_node([b1 EXCEPT !.nodes = SubElement(@, b1.dirnodes[path_split(filepath)[1]],
                                                  "Component", r1.id, <<>>),
                             !.ids = r1.ids],
                  path_split(filepath)[2], path_join(prefix, filepath))

add_component(b1, filepath) ==
    put_component(b1, filepath, format_path_id(b1.ids, filepath, FALSE))

\* _add_file(filepath)
add_file(b, filepath) == add_component(add_directory(b, path_split(filepath)[1]), filepath)

\* _add_files
RECURSIVE add_files(_, _)
add_files(b, fl) == IF fl = <<>> THEN b ELSE add_files(add_file(b, Head(fl)), Tail(fl))

\* MergeModule._fill
mm_fill(b, pkgname, fl) ==
    add_files(mm_add_root_dir(mm_add_package(mm_add_module(mm_add_root(b), pkgname))), fl)

(***************************************************************************)
(* MSI.  The template parsed by the constructor is the root "Wix" element  *)
(* (node 1) with its "Product" child (node 2).                             *)
(***************************************************************************)
ProgramFilesFolder == <<"P", "r", "o", "g", "r", "a", "m", "F", "i", "l", "e", "s",
                        "F", "o", "l", "d", "e", "r">>
PFiles == <<"P", "F", "i", "l", "e", "s">>
INSTALLDIR == <<"I", "N", "S", "T", "A", "L", "L", "D", "I", "R">>
\* package.install_dir[target_platform]
install_dir == <<"s", "d", "k">>
msm == <<".", "m", "s", "m">>
product == 2

msi_template == <<Element("Wix", <<>>, <<>>, <<>>, "", "", 0),
                  Element("Product", <<>>, <<>>, <<>>, "", "", 1)>>

\* MSI._package_id
package_id(package_name) == format_id(package_name, FALSE)

\* MSI._add_dir with the node added last as the parent
add_dir_below(ns, dir_id, name) == SubElement(ns, Len(ns), "Directory", dir_id, name)

\* MSI._add_install_dir: the last node added is self.installdir
add_install_dir(ns) ==
    add_dir_below(
        add_dir_below(
            add_dir_below(SubElement(ns, product, "Directory", TARGETDIR, SourceDir),
                          ProgramFilesFolder, PFiles),
            format_id(install_dir, FALSE), install_dir),
        INSTALLDIR, <<".">>)

\* "packages = [x for x in packages if x[0] in self.packages_deps]"
is_active(pdeps, name) == name \in Range(pdeps)
active_packages(pkgs, pdeps) == SelectSeq(pkgs, LAMBDA x : is_active(pdeps, x[1]))

\* the transitive dependencies of a required package
required_closure(pk, p, order) == get_package_deps(pk, p, TRUE, 1, order).ret

\* "self.store.get_package_deps(p)": the dependencies of one required package
required_deps(pk, p, order) == get_package_deps(pk, p, FALSE, 1, order).ret

required_with_deps(pk, names, order) ==
    names \o Concat([i \in DOMAIN names |-> required_deps(pk, names[i], order)])

entry_names(entries) == [i \in DOMAIN entries |-> entries[i][1]]

\* "required_packages = req[:]; for p in req: required_packages.extend(...)"
fill_required_packages(pk, pkgs, order) ==
    required_with_deps(pk, entry_names(SelectSeq(pkgs, LAMBDA x : x[2] = TRUE)), order)

\* the two filters of _add_merge_module
select_mergerefs(deps, required, req_pkgs, order) ==
    IF ~required
    THEN InOrder(Range(deps) \ Range(req_pkgs), order)
    ELSE SelectSeq(deps, LAMBDA x : x \in Range(req_pkgs))

RECURSIVE add_mergerefs(_, _, _)
add_mergerefs(ns, feature, names) ==
    IF names = <<>> THEN ns
    ELSE add_mergerefs(SubElement(ns, feature, "MergeRef", package_id(Head(names)), <<>>),
                       feature, Tail(names))

\* the MergeRefs of the Feature added last
add_feature_refs(n1, names) == add_mergerefs(n1, Len(n1), names)

\* MSI._add_merge_module(package, required, selected, required_packages)
add_merge_module(ns, pk, main_feature, entry, req_pkgs, order) ==
    add_feature_refs(
        Append(ns, Element("Feature", format_id(entry[1], FALSE), <<>>, <<>>,
                           format_level(entry[3]), format_absent(entry[2]), main_feature)),
        select_mergerefs(get_package_deps(pk, entry[1], FALSE, 1, order).ret,
                         entry[2], req_pkgs, order) \o <<entry[1]>>)

RECURSIVE add_features(_, _, _, _, _, _)
add_features(ns, pk, main_feature, pkgs, req_pkgs, order) ==
    IF pkgs = <<>> THEN ns
    ELSE add_features(add_merge_module(ns, pk, main_feature, Head(pkgs), req_pkgs, order),
                      pk, main_feature, Tail(pkgs), req_pkgs, order)

RECURSIVE add_merges(_, _, _)
add_merges(ns, installdir, pdeps) ==
    IF pdeps = <<>> THEN ns
    ELSE add_merges(Append(ns, Element("Merge", package_id(Head(pdeps)), <<>>,
                                       Head(pdeps) \o msm, "", "", installdir)),
                    installdir, Tail(pdeps))

\* the loops of _add_merge_modules once packages and required_packages are known
add_modules(n1, installdir, pk, pkgs, req_pkgs, pdeps, order) ==
    [nodes |-> add_merges(add_features(n1, pk, Len(n1), pkgs, req_pkgs, order),
                          installdir, pdeps),
     required_packages |-> req_pkgs]

add_active_modules(n1, installdir, pk, pkgs, pdeps, order) ==
    add_modules(n1, installdir, pk, pkgs, fill_required_packages(pk, pkgs, order), pdeps, order)

\* MSI._add_merge_modules: the main Feature is the node added first
add_merge_modules(ns, installdir, pk, pkgname, pdeps, order) ==
    add_active_modules(SubElement(ns, product, "Feature", format_id(pkgname, FALSE), <<>>),
                       installdir, pk, active_packages(pk[pkgname].packages, pdeps),
                       pdeps, order)

\* _add_merge_modules on the document that holds the install directories
fill_below_installdir(n1, pk, pkgname, pdeps, order) ==
    add_merge_modules(n1, Len(n1), pk, pkgname, pdeps, order)

\* MSI._fill
msi_fill(ns, pk, pkgname, pdeps, order) ==
    fill_below_installdir(add_install_dir(ns), pk, pkgname, pdeps, order)

(***************************************************************************)
(* Registries and inputs of the store                                      *)
(***************************************************************************)
\* the deps lists of the plain packages with exactly k dependency mentions
RECURSIVE DepsWithEdges(_)
DepsWithEdges(k) ==
    IF k = 0 THEN {[n \in PkgNames |-> <<>>]}
    ELSE {[d EXCEPT ![p] = Append(@, q)] : d \in DepsWithEdges(k - 1), p \in PkgNames, q \in PkgNames}

DeclaredDeps == UNION {DepsWithEdges(k) : k \in 0..MaxEdges}

Registry(d, pkgs) ==
    [n \in AllNames |-> IF n = sdk THEN MetaPackage(pkgs) ELSE Package(d[n])]

\* sequences of package names that name no package twice
DistinctNames == {t \in SeqsUpTo(PkgNames, MaxConstituents) :
                     t # <<>> /\ Cardinality(Range(t)) = Len(t)}

\* the store reads only the names of the MetaPackage's entries
PlainEntries == {[i \in DOMAIN s |-> <<s[i], TRUE, TRUE>>] : s \in DistinctNames}

P_x == <<"x">>
P_ax == <<"a", "/", "x">>
P_abx == <<"a", "/", "b", "/", "x">>
P_bx1 == <<"b", "/", "x", "-", "1">>
P_bxy == <<"b", "/", "x", ".", "y">>

\* what get_files_list() of a package may return
FileLists == {<<>>, <<P_ax>>, <<P_bx1, P_ax>>, <<P_ax, P_ax>>}

\* the file lists of the members of S (the other packages are never asked);
\* two members may ship the same file
FilesOf(S) ==
    {[n \in PkgNames |-> IF n \in S THEN f[n] ELSE <<>>] : f \in [S -> {<<P_ax>>, <<P_bx1, P_ax>>}]}

Orders == Perms(PkgNames)
AnOrder == CHOOSE o \in Orders : TRUE

\* every iteration order of the members of S (the other names follow, they never meet)
OrdersOf(S) == {o \o sorted(SetToSeq(PkgNames \ S)) : o \in Perms(S)}

NoBuilder ==
    /\ kind = "none"
    /\ package = <<>>
    /\ filled = FALSE
    /\ ids = <<>>
    /\ nodes = <<>>
    /\ dirnodes = <<>>
    /\ files_list = <<>>
    /\ packages_deps = <<>>
    /\ required_packages = <<>>
    /\ fillRuns = 0
    /\ refilled = FALSE
    /\ outfile = <<>>
    /\ idlog = <<>>

NoCall == [op |-> "none", target |-> <<>>, recursive |-> FALSE, ret |-> <<>>,
           err |-> "none"]

StoreInit ==
    /\ \E d \in DeclaredDeps, pkgs \in PlainEntries : packages = Registry(d, pkgs)
    /\ packages0 = packages
    /\ last = NoCall
    /\ NoBuilder

RECURSIVE SumLen(_, _)
SumLen(pk, S) == IF S = {} THEN 0
                 ELSE LET n == CHOOSE m \in S : TRUE
                      IN  Len(pk[n].deps) + SumLen(pk, S \ {n})

DepsBounded == SumLen(packages, PkgNames) <= SumLen(packages0, PkgNames) + MaxGrowth

IsMeta(n) == n \in DOMAIN packages /\ packages[n].type = "MetaPackage"

\* a caller invokes store.get_package_deps(target, recursive)
GetPackageDeps ==
    /\ last.op = "none"
    /\ DepsBounded
    /\ \E target \in AllNames \cup {unknown}, recursive \in BOOLEAN :
       \E order \in (IF IsMeta(target) THEN OrdersOf(list_metapackage_deps(packages, packages[target]))
                     ELSE {AnOrder}) :
          LET r == get_package_deps(packages, target, recursive, 1, order)
          IN  /\ packages' = r.pk
              /\ last' = [op |-> "get_package_deps", target |-> target,
                          recursive |-> recursive, ret |-> r.ret, err |-> r.err]
    /\ UNCHANGED packages0
    /\ UNCHANGED wixVars

\* a caller invokes store.get_package_files_list(name)
GetPackageFilesList ==
    /\ last.op = "none"
    /\ DepsBounded
    /\ \E name \in AllNames \cup {unknown} :
       \E files \in (IF IsMeta(name)
                     THEN FilesOf(list_metapackage_deps(packages, packages[name]))
                     ELSE {[n \in PkgNames |-> fl] : fl \in FileLists}) :
       \E order \in (IF IsMeta(name) THEN OrdersOf(list_metapackage_deps(packages, packages[name]))
                     ELSE {AnOrder}) :
          LET r == get_package_files_list(packages, name, files, order)
          IN  /\ packages' = r.pk
              /\ last' = [op |-> "get_package_files_list", target |-> name,
                          recursive |-> FALSE, ret |-> r.ret, err |-> r.err]
    /\ UNCHANGED packages0
    /\ UNCHANGED wixVars

\* the caller is done with the returned list (or the exception) and goes on
Return ==
    /\ last.op # "none"
    /\ last' = NoCall
    /\ UNCHANGED <<packages, packages0>>
    /\ UNCHANGED wixVars

StoreNext == GetPackageDeps \/ GetPackageFilesList \/ Return

StoreSpec == StoreInit /\ [][StoreNext]_vars

(***************************************************************************)
(* The builders                                                            *)
(***************************************************************************)
\* MetaPackage entries with their flags, the packages listed in order of name.
\* required is free; selected (it only sets the Level attribute) is true for the
\* entries at odd positions and false for the others
FlagEntries ==
    UNION {{[i \in DOMAIN ns |-> <<ns[i], rq[i], i % 2 = 1>>] :
                rq \in [DOMAIN ns -> BOOLEAN]} : ns \in {t \in DistinctNames : Ascending(t)}}

MMPaths == {P_x, P_ax, P_abx, P_bx1, P_bxy}

NoStoreCall ==
    /\ packages0 = packages
    /\ last = NoCall

MergeModuleInit ==
    /\ kind = "MergeModule"
    /\ package \in PkgNames
    /\ files_list \in SeqsUpTo(MMPaths, MaxFiles)
    /\ packages = Registry([n \in PkgNames |-> <<>>], <<<<app, TRUE, TRUE>>>>)
    /\ packages_deps = <<>>
    /\ nodes = <<>>

MSIInit ==
    /\ kind = "MSI"
    /\ package = sdk
    /\ files_list = <<>>
    /\ \E d \in DeclaredDeps, pkgs \in FlagEntries : packages = Registry(d, pkgs)
    /\ \E S \in SUBSET PkgNames : packages_deps = sorted(SetToSeq(S))
    /\ nodes = msi_template

NewBuilder ==
    /\ NoStoreCall
    /\ filled = FALSE
    /\ ids = <<>>
    /\ dirnodes = <<>>
    /\ required_packages = <<>>
    /\ fillRuns = 0
    /\ refilled = FALSE
    /\ outfile = <<>>
    /\ idlog = <<>>

MMInit == MergeModuleInit /\ NewBuilder
MSISpecInit == MSIInit /\ NewBuilder
WixInit == (MergeModuleInit \/ MSIInit) /\ NewBuilder

\* the names whose relative order in "list(set(...))" can show in the document:
\* the dependencies of the packages that have more than one
SetOrdered == UNION {Range(packages[n].deps) :
                        n \in {m \in PkgNames : Cardinality(Range(packages[m].deps)) > 1}}

\* _fill of a MergeModule, stored
MergeModuleFilled(b) ==
    /\ nodes' = b.nodes
    /\ ids' = b.ids
    /\ dirnodes' = b.dirnodes
    /\ UNCHANGED required_packages

\* _fill of an MSI, stored
MSIFilled(r) ==
    /\ nodes' = r.nodes
    /\ required_packages' = r.required_packages
    /\ UNCHANGED <<ids, dirnodes>>

\* WixBase.fill()
fill ==
    IF is_filled(filled)
    THEN /\ refilled' = TRUE
         /\ UNCHANGED <<filled, ids, nodes, dirnodes, required_packages, fillRuns>>
    ELSE /\ IF kind = "MergeModule"
            THEN MergeModuleFilled(mm_fill([nodes |-> nodes, ids |-> ids, dirnodes |-> dirnodes],
                                           package, files_list))
            ELSE \E order \in OrdersOf(SetOrdered) :
                    MSIFilled(msi_fill(nodes, packages, package, packages_deps, order))
         /\ filled' = TRUE
         /\ fillRuns' = fillRuns + 1
         /\ UNCHANGED refilled

\* a caller invokes builder.fill()
Fill ==
    /\ kind \in {"MergeModule", "MSI"}
    /\ fill
    /\ UNCHANGED <<kind, package, files_list, packages_deps, outfile, idlog>>
    /\ UNCHANGED storeVars

\* a caller invokes builder.write(filepath)
Write ==
    /\ kind \in {"MergeModule", "MSI"}
    /\ fill
    /\ outfile' = nodes'
    /\ UNCHANGED <<kind, package, files_list, packages_deps, idlog>>
    /\ UNCHANGED storeVars

WixNext == Fill \/ Write

WixSpec == WixInit /\ [][WixNext]_vars
MMSpec == MMInit /\ [][WixNext]_vars
MSISpec == MSISpecInit /\ [][WixNext]_vars

(***************************************************************************)
(* Direct use of the identifier scheme of one builder                      *)
(***************************************************************************)
IdPaths == {P_x, P_ax, P_bx1, P_bxy, <<"x", "_", "1">>, <<"b", "/", "x", "y">>}

IdInit ==
    /\ kind = "WixBase"
    /\ package = app
    /\ packages = Registry([n \in PkgNames |-> <<>>], <<<<app, TRUE, TRUE>>>>)
    /\ NoStoreCall
    /\ filled = FALSE
    /\ ids = <<>>
    /\ nodes = <<>>
    /\ dirnodes = <<>>
    /\ files_list = <<>>
    /\ packages_deps = <<>>
    /\ required_packages = <<>>
    /\ fillRuns = 0
    /\ refilled = FALSE
    /\ outfile = <<>>
    /\ idlog = <<>>

\* the identifier is handed to the caller, the counters stay in the builder
IdReturned(path, r) ==
    /\ ids' = r.ids
    /\ idlog' = Append(idlog, [path |-> path, id |-> r.id])

\* a caller invokes builder._format_path_id(path, replace_dots)
FormatPathId ==
    /\ kind = "WixBase"
    /\ Len(idlog) < MaxIdCalls
    /\ \E path \in IdPaths, replace_dots \in BOOLEAN :
          IdReturned(path, format_path_id(ids, path, replace_dots))
    /\ UNCHANGED <<kind, package, filled, nodes, dirnodes, files_list, packages_deps,
                   required_packages, fillRuns, refilled, outfile>>
    /\ UNCHANGED storeVars

IdNext == FormatPathId

IdSpec == IdInit /\ [][IdNext]_vars

(***************************************************************************)
(* Properties of the store                                                 *)
(***************************************************************************)
\* what "depends on" means, read off the deps lists without running the resolver
RECURSIVE Grow(_, _)
Grow(pk, S) == LET T == S \cup UNION {Range(pk[m].deps) : m \in S}
               IN  IF T = S THEN S ELSE Grow(pk, T)
ReachPlus(pk, n) == Grow(pk, Range(pk[n].deps))
ReachStar(pk, n) == Grow(pk, {n})
Acyclic(pk) == \A n \in PkgNames : n \notin ReachPlus(pk, n)

DepsCallReturned == last.op = "get_package_deps" /\ last.target \in DOMAIN packages

\* C1: every get_package_deps call on a registered package or metapackage, with
\* recursive False or True, cyclic deps or not, returns a list (it raises nothing)
C1_AlwaysReturns == DepsCallReturned => last.err = "none"

\* C2: the store calls leave the registry as it was loaded: same packages, same
\* deps lists (elements, length, order)
C2_RegistryUnchanged == packages = packages0

\* C3: on an acyclic registry get_package_deps(P, recursive=True) of a plain
\* package P returns the packages reachable from P over one or more deps edges,
\* each once, in ascending order of name
C3_RecursiveClosure ==
    (DepsCallReturned /\ last.recursive /\ packages[last.target].type = "Package"
        /\ Acyclic(packages0))
    => /\ last.err = "none"
       /\ Range(last.ret) = ReachPlus(packages0, last.target)
       /\ Range(last.ret) = ReachPlus(packages, last.target)
       /\ Ascending(last.ret)

\* the spec's scenario, base <- core <- app, asked for app
C3_Witness ==
    /\ last.op = "get_package_deps" /\ last.target = app /\ last.recursive
    /\ packages0[app].deps = <<core>> /\ packages0[core].deps = <<base>>
    /\ packages0[base].deps = <<>>
    /\ last.ret = <<base, core>>

\* C4: get_package_deps(M) of a MetaPackage M returns the packages reachable from
\* M's constituents over zero or more deps edges, sorted by name, none twice
C4_MetaClosure ==
    (DepsCallReturned /\ ~last.recursive /\ packages[last.target].type = "MetaPackage")
    => /\ last.err = "none"
       /\ Range(last.ret) =
              UNION {ReachStar(packages, c) : c \in Range(list_packages(packages[last.target]))}
       /\ Ascending(last.ret)

\* two constituents on one cycle, which both reach the third package
C4_Witness ==
    /\ last.op = "get_package_deps" /\ last.target = sdk /\ ~last.recursive
    /\ Len(packages[sdk].packages) = 2
    /\ packages[sdk].packages[1][1] # packages[sdk].packages[2][1]
    /\ \E n \in PkgNames : n \in ReachPlus(packages, n)
    /\ Len(last.ret) >= 2

\* C5: get_package_files_list returns its paths in ascending order, none twice,
\* for a plain package (whatever get_files_list() returned) and for a MetaPackage
C5_FilesSortedUnique ==
    (last.op = "get_package_files_list" /\ last.err = "none") => Ascending(last.ret)

(***************************************************************************)
(* Properties of the builders                                              *)
(***************************************************************************)
\* C6: two _format_path_id calls of one builder with different paths never
\* return the same identifier
C6_IdsDistinct ==
    \A i, j \in DOMAIN idlog :
        idlog[i].path # idlog[j].path => idlog[i].id # idlog[j].id

\* C7: once fill() has completed, fill() and write() run _fill no more and
\* leave the document, the identifier counters and the filled flag as they are
C7_FillOnce ==
    [][filled => (filled' /\ nodes' = nodes /\ ids' = ids /\ fillRuns' = fillRuns)]_vars

\* fill() was called again on a filled builder, and write() has written the document
C7_Witness == filled /\ refilled /\ fillRuns = 1 /\ outfile = nodes /\ Len(nodes) > 4

ChildrenOf(p) == SelectSeq([i \in DOMAIN nodes |-> i], LAMBDA i : nodes[i].parent = p)
WithTag(tag) == SelectSeq([i \in DOMAIN nodes |-> i], LAMBDA i : nodes[i].tag = tag)

\* the TARGETDIR node of a merge module: the Directory directly under the Module
RootDir == CHOOSE i \in DOMAIN nodes : nodes[i].tag = "Directory" /\ nodes[nodes[i].parent].tag = "Module"

\* the path a Directory node stands for, read off the tree
RECURSIVE NodePath(_)
NodePath(i) ==
    IF i = RootDir \/ nodes[i].parent = 0 THEN <<>>
    ELSE LET up == NodePath(nodes[i].parent)
         IN  IF up = <<>> THEN nodes[i].Name ELSE up \o <<"/">> \o nodes[i].Name

\* the directories above a relative path, and the one directly above it
Ancestors(f) == {SubSeq(f, 1, i - 1) : i \in {j \in DOMAIN f : f[j] = "/"}}
Dirname(f) == IF Ancestors(f) = {} THEN <<>>
              ELSE CHOOSE d \in Ancestors(f) : \A e \in Ancestors(f) : Len(e) <= Len(d)
Basename(f) == SubSeqFrom(f, Len(Dirname(f)) + (IF Dirname(f) = <<>> THEN 1 ELSE 2))

\* C8: after MergeModule fill there is one Directory node per ancestor directory
\* of the files, each under the node of its parent path and younger than it, and
\* the Component of each file (with its one File) is under the Directory node of
\* the file's directory, which is older than the Component
C8_DirectoryTree ==
    (kind = "MergeModule" /\ filled) =>
    LET dirs == Range(WithTag("Directory")) \ {RootDir}
        expected == UNION {Ancestors(files_list[k]) : k \in DOMAIN files_list}
        comps == WithTag("Component")
    IN  /\ \A d \in expected : Cardinality({i \in dirs : NodePath(i) = d}) = 1
        /\ \A i \in dirs :
              /\ NodePath(i) \in expected
              /\ nodes[i].parent < i
              /\ nodes[nodes[i].parent].tag = "Directory"
              /\ NodePath(nodes[i].parent) = Dirname(NodePath(i))
        /\ Len(comps) = Len(files_list)
        /\ \A k \in DOMAIN comps :
              LET c == comps[k]
                  kids == ChildrenOf(c)
              IN  /\ nodes[nodes[c].parent].tag = "Directory"
                  /\ NodePath(nodes[c].parent) = Dirname(files_list[k])
                  /\ nodes[c].parent < c
                  /\ Len(kids) = 1
                  /\ nodes[kids[1]].tag = "File"
                  /\ nodes[kids[1]].Name = Basename(files_list[k])
                  /\ nodes[kids[1]].Source = prefix \o <<"/">> \o files_list[k]

\* two files whose directories share the ancestor "a"
C8_Witness ==
    /\ kind = "MergeModule" /\ filled
    /\ files_list = <<P_abx, P_ax>>
    /\ Len(WithTag("Directory")) = 3

\* the entries of the MetaPackage that are in the active dependency set
ActiveEntries == SelectSeq(packages[package].packages, LAMBDA e : e[1] \in Range(packages_deps))
RequiredActive == {e[1] : e \in {x \in Range(ActiveEntries) : x[2]}}
DirectDeps(n) == Range(packages[n].deps)

\* the required set as the transitive dependencies of the required constituents
TransitiveSet == UNION {ReachPlus(packages, p) : p \in RequiredActive}
\* the required set as the required constituents and their direct dependencies
DirectSet == RequiredActive \cup UNION {DirectDeps(p) : p \in RequiredActive}

MainFeature == CHOOSE i \in DOMAIN nodes : nodes[i].tag = "Feature" /\ nodes[i].parent = product
SubFeatures == ChildrenOf(MainFeature)

\* every sub-Feature holds MergeRefs for its dependencies inside S (required) or
\* outside S (not required), and after them one MergeRef for its own package
FeaturesFollow(S) ==
    /\ Len(SubFeatures) = Len(ActiveEntries)
    /\ \A k \in DOMAIN SubFeatures :
          LET e == ActiveEntries[k]
              kids == ChildrenOf(SubFeatures[k])
              keep == IF e[2] THEN DirectDeps(e[1]) \cap S ELSE DirectDeps(e[1]) \ S
          IN  /\ nodes[SubFeatures[k]].tag = "Feature"
              /\ nodes[SubFeatures[k]].Id = format_id(e[1], FALSE)
              /\ \A i \in DOMAIN kids : nodes[kids[i]].tag = "MergeRef"
              /\ Len(kids) = Cardinality(keep) + 1
              /\ nodes[kids[Len(kids)]].Id = format_id(e[1], FALSE)
              /\ {nodes[kids[i]].Id : i \in 1..(Len(kids) - 1)} = {format_id(n, FALSE) : n \in keep}

\* C9 as stated: the required set is the union of the transitive dependencies of
\* the required active constituents, and the sub-Features filter their
\* dependencies by it
C9_AsStated ==
    (kind = "MSI" /\ filled) =>
        (Range(required_packages) = TransitiveSet /\ FeaturesFollow(TransitiveSet))

\* C9 amended: the required set is the required active constituents themselves
\* together with their direct dependencies (get_package_deps, recursive=False);
\* a required sub-Feature gets MergeRefs for its dependencies in that set, a
\* non-required one for its dependencies outside it, each also one for itself
C9_DirectRequiredSet ==
    (kind = "MSI" /\ filled) =>
        (Range(required_packages) = DirectSet /\ FeaturesFollow(DirectSet))

\* app is required, core is not, both depend on base: base is forced by app and
\* left out of core's Feature
C9_Witness ==
    /\ kind = "MSI" /\ filled
    /\ packages[sdk].packages = <<<<app, TRUE, TRUE>>, <<core, FALSE, FALSE>>>>
    /\ packages[app].deps = <<base>> /\ packages[core].deps = <<base>>
    /\ packages_deps = <<app, base, core>>
    /\ Len(ChildrenOf(SubFeatures[1])) = 2
    /\ Len(ChildrenOf(SubFeatures[2])) = 1

\* C10: every MergeRef of the filled MSI document names a Merge element that
\* exists under INSTALLDIR
C10_MergeRefsResolve ==
    (kind = "MSI" /\ filled) =>
        \A i \in DOMAIN nodes :
            nodes[i].tag = "MergeRef" =>
                \E j \in DOMAIN nodes :
                    /\ nodes[j].tag = "Merge"
                    /\ nodes[j].Id = nodes[i].Id
                    /\ nodes[nodes[j].parent].Id = INSTALLDIR

====
